---- MODULE Spec2Model ----
(***************************************************************************)
(* A model of id_generator/generator.py: the Snowflake-style identifier    *)
(* generator IDGenerator and its workers IDProcessWorker.                  *)
(*                                                                         *)
(* Python integers are unbounded two's-complement numbers; the bit         *)
(* operators below follow Python's semantics on negative operands.  Clock  *)
(* readings and the epoch are scaled down to small numbers, the arithmetic *)
(* on them is the code's.                                                  *)
(***************************************************************************)
EXTENDS Integers, Sequences, FiniteSets, TLC

VARIABLES
    process_id_bits,    \* IDGenerator.process_id_bits
    worker_id_bits,     \* IDGenerator.worker_id_bits
    increment_bits,     \* IDGenerator.increment_bits
    epoch,              \* IDGenerator.epoch (seconds)
    heap,               \* the IDProcessWorker objects, by reference 1..Len(heap)
    workers,            \* IDGenerator.workers: the rotation pool (list of references)
    workers_full,       \* IDGenerator.workers_full: the registry (list of references)
    history,            \* ghost: every finished call, in the order the calls ended
    pc,                 \* per caller thread: the statement it is about to execute
    frame               \* per caller thread: the locals of its running call

vars == <<process_id_bits, worker_id_bits, increment_bits, epoch,
          heap, workers, workers_full, history, pc, frame>>

config == <<process_id_bits, worker_id_bits, increment_bits, epoch>>

-----------------------------------------------------------------------------
(* Bounds of the model *)

\* workers registered at most
MaxWorkers == 2
\* operations (registrations and calls) at most
MaxOps == 5
\* clock readings range up to this many milliseconds after the epoch
MaxTime == 2
\* the epoch the generator is constructed with, in seconds
EpochSec == 1
\* concurrent callers of the threaded specification
NumThreads == 2
\* operations at most in the threaded specification
MaxConcOps == 3
\* bit widths up to this in the specification of the encoding
MaxBits == 2
\* operations at most in the specification of the encoding
MaxCodecOps == 2
\* operations at most in the specification of the lookups
MaxLookupOps == 5
\* the target width of an identifier in bits, scaled down from 64 as the
\* clock readings are: wide enough for some layouts of MaxBits and not for all
TargetWidth == 6

\* bit widths a generator is constructed with
BitWidths == {0, 1}
\* the width of the worker field where it is not varied
OneBit == {1}
\* <<worker_id, process_id>> arguments of a registration: in range for one-bit
\* fields, and one process_id no field of these widths holds
RegistrationArgs == {<<0, 0>>, <<1, 0>>, <<0, 1>>, <<0, 2>>}
\* `increment` arguments of a registration
IncrementArgs == {0}

\* time.time() * 1000.0, truncated: any reading, the clock may jump either way.
\* A reading may lie before the epoch, never before 1970.
Clock == {t \in (EpochSec * 1000 - 1)..(EpochSec * 1000 + MaxTime) : t >= 0}

Threads == 1..NumThreads

-----------------------------------------------------------------------------
(* Python's integer operators *)

Pow2(n) == 2^n

\* a << n
Shl(a, n) == a * Pow2(n)

RECURSIVE BitOr(_, _)
\* a | b on two's-complement integers of unbounded width
BitOr(a, b) ==
    IF a \in {0, -1} /\ b \in {0, -1}
    THEN (IF a = -1 \/ b = -1 THEN -1 ELSE 0)
    ELSE (IF (a % 2) = 1 \/ (b % 2) = 1 THEN 1 ELSE 0)
         + 2 * BitOr(a \div 2, b \div 2)

RECURSIVE BitAnd(_, _)
\* a & b
BitAnd(a, b) ==
    IF a \in {0, -1} /\ b \in {0, -1}
    THEN (IF a = -1 /\ b = -1 THEN -1 ELSE 0)
    ELSE (IF (a % 2) = 1 /\ (b % 2) = 1 THEN 1 ELSE 0)
         + 2 * BitAnd(a \div 2, b \div 2)

RECURSIVE BitXor(_, _)
\* a ^ b
BitXor(a, b) ==
    IF a \in {0, -1} /\ b \in {0, -1}
    THEN (IF a = b THEN 0 ELSE -1)
    ELSE (IF (a % 2) = (b % 2) THEN 0 ELSE 1)
         + 2 * BitXor(a \div 2, b \div 2)

-----------------------------------------------------------------------------
(* IDGenerator.__init__: the derived attributes *)

\* -1 ^ (-1 << bits)
MaxOf(bits) == BitXor(-1, Shl(-1, bits))

max_process_id == MaxOf(process_id_bits)
max_increment_id == MaxOf(increment_bits)
max_worker_id == MaxOf(worker_id_bits)

worker_id_left_shift == increment_bits
process_id_left_shift == worker_id_bits + worker_id_left_shift
timestamp_left_shift == process_id_bits + process_id_left_shift

-----------------------------------------------------------------------------
(* IDProcessWorker *)

\* Python's None, where a worker reference is expected
None == 0

\* mutant: last_timestamp starts at the epoch and not at the sentinel
IDProcessWorker_StartsAtEpoch(worker_id, process_id, epoch_arg, increment) ==
    [worker_id |-> worker_id,
     process_id |-> process_id,
     epoch |-> epoch_arg * 1000,
     last_timestamp |-> epoch_arg * 1000,
     increment |-> increment]

\* IDProcessWorker.__init__ (self.timestamp, which nothing reads, is left out)
IDProcessWorker(worker_id, process_id, epoch_arg, increment) ==
    [worker_id |-> worker_id,
     process_id |-> process_id,
     epoch |-> epoch_arg * 1000,
     last_timestamp |-> -1,
     increment |-> increment]

\* mutant: a backward jump of one millisecond goes unnoticed
TimeRunningBackwards_OffByOne(timestamp, last_timestamp) == timestamp + 1 < last_timestamp

\* mutant: a reading equal to last_timestamp is rejected too
TimeRunningBackwards_RejectsEqual(timestamp, last_timestamp) == timestamp <= last_timestamp

\* the guard of get_next_id
TimeRunningBackwards(timestamp, last_timestamp) == timestamp < last_timestamp

\* mutant: the increment is masked and not advanced
NextIncrement_Stuck(increment) == BitAnd(increment, max_increment_id)

\* mutant: the increment is advanced and not masked
NextIncrement_NoMask(increment) == increment + 1

\* the new value of self.increment
NextIncrement(increment) == BitAnd(increment + 1, max_increment_id)

\* mutant: the process and worker fields are shifted by each other's amount
ComposeId_SwappedShifts(timestamp, w) ==
    BitOr(BitOr(BitOr(Shl(timestamp - w.epoch, timestamp_left_shift),
                      Shl(w.process_id, worker_id_left_shift)),
                Shl(w.worker_id, process_id_left_shift)),
          w.increment)

\* the identifier get_next_id returns
ComposeId(timestamp, w) ==
    BitOr(BitOr(BitOr(Shl(timestamp - w.epoch, timestamp_left_shift),
                      Shl(w.process_id, process_id_left_shift)),
                Shl(w.worker_id, worker_id_left_shift)),
          w.increment)

\* the worker after a successful get_next_id that read `timestamp`
Advance(w, timestamp) ==
    [w EXCEPT !.increment = NextIncrement(w.increment),
              !.last_timestamp = timestamp]

\* What a finished call leaves in the history.
\*   status  "ok", or the exception the call raised, or "registered"
\*   value   the identifier returned; for OSError the milliseconds in its message;
\*           for a registration its `increment` argument
Event(op, ref, timestamp, status, value) ==
    [op |-> op, worker |-> ref, time |-> timestamp, status |-> status, value |-> value]

\* The outcome of self.get_next_id() on worker `ref` reading `timestamp`:
\* the updated worker and the event.
GetNextIdOutcome(op, ref, timestamp) ==
    LET w == heap[ref] IN
    IF TimeRunningBackwards(timestamp, w.last_timestamp)
    THEN [worker |-> w,
          event |-> Event(op, ref, timestamp, "OSError", w.last_timestamp - timestamp)]
    ELSE [worker |-> Advance(w, timestamp),
          event |-> Event(op, ref, timestamp, "ok", ComposeId(timestamp, Advance(w, timestamp)))]

-----------------------------------------------------------------------------
(* Ghost bookkeeping *)

Running == {t \in Threads : pc[t] # "idle"}

IdleFrame ==
    [op |-> "none", random_worker |-> None, timestamp |-> 0, increment |-> 0,
     last_timestamp |-> 0]

-----------------------------------------------------------------------------
(* Construction *)

\* IDGenerator(epoch, process_id_bits, worker_id_bits, increment_bits), each
\* width drawn from the set given for it
Construct(process_widths, worker_widths, increment_widths) ==
    /\ process_id_bits \in process_widths
    /\ worker_id_bits \in worker_widths
    /\ increment_bits \in increment_widths
    /\ epoch = EpochSec
    /\ heap = <<>>
    /\ workers = <<>>
    /\ workers_full = <<>>
    /\ history = <<>>
    /\ pc = [t \in Threads |-> "idle"]
    /\ frame = [t \in Threads |-> IdleFrame]

Init == Construct(BitWidths, OneBit, BitWidths)

\* one layout, where the operations read no width
InitOneLayout == Construct(OneBit, OneBit, OneBit)

-----------------------------------------------------------------------------
(* The operations, each run from call to return by one caller *)

\* IDGenerator.create_process_and_worker
create_process_and_worker(worker_id, process_id, increment) ==
    /\ Len(heap) < MaxWorkers
    /\ LET ref == Len(heap) + 1 IN
       /\ heap' = Append(heap, IDProcessWorker(worker_id, process_id, epoch, increment))
       /\ workers' = Append(workers, ref)
       /\ workers_full' = Append(workers_full, ref)
       /\ history' = Append(history, Event("create_process_and_worker", ref, 0, "registered", increment))
    /\ UNCHANGED <<config, pc, frame>>

\* random.shuffle(list): every order of the list
Shuffles(list) ==
    {[i \in 1..Len(list) |-> list[p[i]]] : p \in Permutations(1..Len(list))}

\* mutant: the pool is refilled on every call
PoolAfterPop_AlwaysRefill(shuffled) == workers_full

\* mutant: the emptied pool is left empty
PoolAfterPop_NeverRefill(shuffled) == Tail(shuffled)

\* mutant: the selected worker stays in the pool
PoolAfterPop_NoPop(shuffled) ==
    IF Tail(shuffled) = <<>> THEN workers_full ELSE shuffled

\* mutant: the pool is refilled when one worker is left in it
PoolAfterPop_RefillsEarly(shuffled) ==
    IF Len(Tail(shuffled)) <= 1 THEN workers_full ELSE Tail(shuffled)

\* self.workers after the pop(0), refilled when that emptied it
PoolAfterPop(shuffled) ==
    IF Tail(shuffled) = <<>> THEN workers_full ELSE Tail(shuffled)

\* IDGenerator.create_id
create_id ==
    /\ IF workers = <<>>
       THEN \* pop(0) of the empty list raises IndexError
            /\ history' = Append(history, Event("create_id", None, 0, "IndexError", 0))
            /\ UNCHANGED <<heap, workers, workers_full>>
       ELSE \E shuffled \in Shuffles(workers), timestamp \in Clock :
            LET random_worker == Head(shuffled)
                out == GetNextIdOutcome("create_id", random_worker, timestamp)
            IN  /\ workers' = PoolAfterPop(shuffled)
                /\ heap' = [heap EXCEPT ![random_worker] = out.worker]
                /\ history' = Append(history, out.event)
                /\ UNCHANGED workers_full
    /\ UNCHANGED <<config, pc, frame>>

\* mutant: a worker matches when either id does
SamePair_EitherId(w, worker_id, process_id) ==
    w.worker_id = worker_id \/ w.process_id = process_id

\* the test of get_worker's loop
SamePair(w, worker_id, process_id) ==
    w.worker_id = worker_id /\ w.process_id = process_id

RECURSIVE FirstMatch(_, _, _)
\* the loop of get_worker over `list`: the first worker that passes the test;
\* falling off the end of the loop returns None
FirstMatch(list, worker_id, process_id) ==
    IF list = <<>> THEN None
    ELSE IF SamePair(heap[Head(list)], worker_id, process_id)
         THEN Head(list)
         ELSE FirstMatch(Tail(list), worker_id, process_id)

\* IDGenerator.get_worker: the event holds the worker returned and the arguments
get_worker(worker_id, process_id) ==
    /\ history' = Append(history,
                         Event("get_worker", FirstMatch(workers_full, worker_id, process_id),
                               0, "returned", <<worker_id, process_id>>))
    /\ UNCHANGED <<config, heap, workers, workers_full, pc, frame>>

-----------------------------------------------------------------------------
(* The generator used by one caller at a time *)

\* a caller registers a worker
Register ==
    /\ Len(history) < MaxOps
    /\ \E args \in RegistrationArgs, increment \in IncrementArgs :
          create_process_and_worker(args[1], args[2], increment)

\* a caller asks the generator for an identifier
Request ==
    /\ Len(history) < MaxOps
    /\ create_id

Next == Register \/ Request

Spec == Init /\ [][Next]_vars

-----------------------------------------------------------------------------
(* The registry looked up between registrations and requests *)

\* <<worker_id, process_id>> arguments of a lookup: the pairs a registration
\* may have used, and one that none has
LookupArgs == RegistrationArgs \cup {<<1, 1>>}

RegisterLookup ==
    /\ Len(history) < MaxLookupOps
    /\ \E args \in RegistrationArgs, increment \in IncrementArgs :
          create_process_and_worker(args[1], args[2], increment)

RequestLookup ==
    /\ Len(history) < MaxLookupOps
    /\ create_id

Lookup ==
    /\ Len(history) < MaxLookupOps
    /\ \E args \in LookupArgs : get_worker(args[1], args[2])

NextLookup == RegisterLookup \/ RequestLookup \/ Lookup

SpecLookup == InitOneLayout /\ [][NextLookup]_vars

-----------------------------------------------------------------------------
(* The encoding: one worker of a generator of any layout, one identifier *)

\* the values a field of MaxBits bits holds
FieldArgs == 0..(Pow2(MaxBits) - 1)

InitCodec == Construct(0..MaxBits, 0..MaxBits, 0..MaxBits)

RegisterCodec ==
    /\ heap = <<>>
    /\ \E worker_id \in FieldArgs, process_id \in FieldArgs, increment \in FieldArgs :
          create_process_and_worker(worker_id, process_id, increment)

RequestCodec ==
    /\ Len(history) < MaxCodecOps
    /\ create_id

NextCodec == RegisterCodec \/ RequestCodec

SpecCodec == InitCodec /\ [][NextCodec]_vars

-----------------------------------------------------------------------------
(* The generator shared by concurrent callers.  The code takes no lock: a   *)
(* thread may be preempted between any two statements, and between the load *)
(* and the store of `self.increment = (self.increment + 1) & ...`.  Each    *)
(* action below is one such step of one thread; a list operation of the     *)
(* interpreter (shuffle, pop, copy) is taken as one step.                   *)

Goto(t, label) == pc' = [pc EXCEPT ![t] = label]

\* the thread's call ends: its frame is dropped, the event recorded
Leave(t, event) ==
    /\ pc' = [pc EXCEPT ![t] = "idle"]
    /\ frame' = [frame EXCEPT ![t] = IdleFrame]
    /\ history' = Append(history, event)

\* operations begun: those finished and the calls still running
Begun == Len(history) + Cardinality(Running)

\* a registration, by a thread that is not preempted during it
RegisterConc ==
    /\ Begun < MaxConcOps
    /\ \E args \in RegistrationArgs, increment \in IncrementArgs :
          create_process_and_worker(args[1], args[2], increment)

\* a thread calls create_id
CallCreateId(t) ==
    /\ pc[t] = "idle"
    /\ Begun < MaxConcOps
    /\ Goto(t, "shuffle")
    /\ frame' = [frame EXCEPT ![t].op = "create_id"]
    /\ UNCHANGED <<config, heap, workers, workers_full, history>>

\* a thread calls get_next_id on a worker it holds
CallGetNextId(t, ref) ==
    /\ pc[t] = "idle"
    /\ Begun < MaxConcOps
    /\ Goto(t, "read_clock")
    /\ frame' = [frame EXCEPT ![t].op = "get_next_id", ![t].random_worker = ref]
    /\ UNCHANGED <<config, heap, workers, workers_full, history>>

\* random.shuffle(self.workers)
Shuffle(t) ==
    /\ pc[t] = "shuffle"
    /\ workers' \in Shuffles(workers)
    /\ Goto(t, "pop")
    /\ UNCHANGED <<config, heap, workers_full, history, frame>>

\* random_worker = self.workers.pop(0)
Pop(t) ==
    /\ pc[t] = "pop"
    /\ IF workers = <<>>
       THEN /\ Leave(t, Event("create_id", None, 0, "IndexError", 0))
            /\ UNCHANGED workers
       ELSE /\ frame' = [frame EXCEPT ![t].random_worker = Head(workers)]
            /\ workers' = Tail(workers)
            /\ Goto(t, "test")
            /\ UNCHANGED history
    /\ UNCHANGED <<config, heap, workers_full>>

\* if not self.workers:
TestPool(t) ==
    /\ pc[t] = "test"
    /\ Goto(t, IF workers = <<>> THEN "refill" ELSE "read_clock")
    /\ UNCHANGED <<config, heap, workers, workers_full, history, frame>>

\* self.workers = self.workers_full.copy()
Refill(t) ==
    /\ pc[t] = "refill"
    /\ workers' = workers_full
    /\ Goto(t, "read_clock")
    /\ UNCHANGED <<config, heap, workers_full, history, frame>>

\* timestamp = self.current_time()
ReadClock(t) ==
    /\ pc[t] = "read_clock"
    /\ \E timestamp \in Clock : frame' = [frame EXCEPT ![t].timestamp = timestamp]
    /\ Goto(t, "compare")
    /\ UNCHANGED <<config, heap, workers, workers_full, history>>

\* if timestamp < self.last_timestamp: raise OSError(...)
Compare(t) ==
    /\ pc[t] = "compare"
    /\ LET ref == frame[t].random_worker
           timestamp == frame[t].timestamp
       IN  IF TimeRunningBackwards(timestamp, heap[ref].last_timestamp)
           THEN Leave(t, Event(frame[t].op, ref, timestamp, "OSError",
                               heap[ref].last_timestamp - timestamp))
           ELSE Goto(t, "load_increment") /\ UNCHANGED <<history, frame>>
    /\ UNCHANGED <<config, heap, workers, workers_full>>

\* the load of self.increment in `self.increment = (self.increment + 1) & ...`
LoadIncrement(t) ==
    /\ pc[t] = "load_increment"
    /\ frame' = [frame EXCEPT ![t].increment = heap[frame[t].random_worker].increment]
    /\ Goto(t, "store_increment")
    /\ UNCHANGED <<config, heap, workers, workers_full, history>>

\* the store of self.increment
StoreIncrement(t) ==
    /\ pc[t] = "store_increment"
    /\ heap' = [heap EXCEPT ![frame[t].random_worker].increment =
                                 NextIncrement(frame[t].increment)]
    /\ Goto(t, "store_timestamp")
    /\ UNCHANGED <<config, workers, workers_full, history, frame>>

\* self.last_timestamp = timestamp
StoreTimestamp(t) ==
    /\ pc[t] = "store_timestamp"
    /\ heap' = [heap EXCEPT ![frame[t].random_worker].last_timestamp = frame[t].timestamp]
    /\ Goto(t, "return")
    /\ UNCHANGED <<config, workers, workers_full, history, frame>>

\* return int(... | self.increment)
Return(t) ==
    /\ pc[t] = "return"
    /\ LET ref == frame[t].random_worker IN
       Leave(t, Event(frame[t].op, ref, frame[t].timestamp, "ok",
                      ComposeId(frame[t].timestamp, heap[ref])))
    /\ UNCHANGED <<config, heap, workers, workers_full>>

NextConc ==
    \/ RegisterConc
    \/ \E t \in Threads : CallCreateId(t)
    \/ \E t \in Threads : \E ref \in 1..Len(heap) : CallGetNextId(t, ref)
    \/ \E t \in Threads : Shuffle(t)
    \/ \E t \in Threads : Pop(t)
    \/ \E t \in Threads : TestPool(t)
    \/ \E t \in Threads : Refill(t)
    \/ \E t \in Threads : ReadClock(t)
    \/ \E t \in Threads : Compare(t)
    \/ \E t \in Threads : LoadIncrement(t)
    \/ \E t \in Threads : StoreIncrement(t)
    \/ \E t \in Threads : StoreTimestamp(t)
    \/ \E t \in Threads : Return(t)

SpecConc == Init /\ [][NextConc]_vars

-----------------------------------------------------------------------------
(* IDProcessWorker.next_milliseconds, statement by statement, beside the     *)
(* other calls.  A thread that is inside a call keeps running: the           *)
(* interpreter schedules every thread again and again.                       *)

\* `last_timestamp` arguments of next_milliseconds
LastTimestampArgs == Clock

\* a thread calls next_milliseconds(last_timestamp) on a worker it holds
CallNextMilliseconds(t, ref, last_timestamp) ==
    /\ pc[t] = "idle"
    /\ Begun < MaxConcOps
    /\ Goto(t, "read_time")
    /\ frame' = [frame EXCEPT ![t].op = "next_milliseconds",
                              ![t].random_worker = ref,
                              ![t].last_timestamp = last_timestamp]
    /\ UNCHANGED <<config, heap, workers, workers_full, history>>

\* timestamp = self.current_time(), before the loop and in its body
ReadTime(t) ==
    /\ pc[t] = "read_time"
    /\ \E timestamp \in Clock : frame' = [frame EXCEPT ![t].timestamp = timestamp]
    /\ Goto(t, "test_time")
    /\ UNCHANGED <<config, heap, workers, workers_full, history>>

\* while timestamp <= last_timestamp:
TestTime(t) ==
    /\ pc[t] = "test_time"
    /\ Goto(t, IF frame[t].timestamp <= frame[t].last_timestamp
               THEN "read_time" ELSE "return_time")
    /\ UNCHANGED <<config, heap, workers, workers_full, history, frame>>

\* return timestamp
ReturnTime(t) ==
    /\ pc[t] = "return_time"
    /\ Leave(t, Event("next_milliseconds", frame[t].random_worker, frame[t].timestamp,
                      "returned", frame[t].timestamp))
    /\ UNCHANGED <<config, heap, workers, workers_full>>

\* the next statement of the call the thread is in
ThreadStep(t) ==
    \/ Shuffle(t) \/ Pop(t) \/ TestPool(t) \/ Refill(t)
    \/ ReadClock(t) \/ Compare(t) \/ LoadIncrement(t) \/ StoreIncrement(t)
    \/ StoreTimestamp(t) \/ Return(t)
    \/ ReadTime(t) \/ TestTime(t) \/ ReturnTime(t)

NextWait ==
    \/ RegisterConc
    \/ \E t \in Threads : CallCreateId(t)
    \/ \E t \in Threads : \E ref \in 1..Len(heap) : CallGetNextId(t, ref)
    \/ \E t \in Threads : \E ref \in 1..Len(heap) : \E last_timestamp \in LastTimestampArgs :
          CallNextMilliseconds(t, ref, last_timestamp)
    \/ \E t \in Threads : Shuffle(t)
    \/ \E t \in Threads : Pop(t)
    \/ \E t \in Threads : TestPool(t)
    \/ \E t \in Threads : Refill(t)
    \/ \E t \in Threads : ReadClock(t)
    \/ \E t \in Threads : Compare(t)
    \/ \E t \in Threads : LoadIncrement(t)
    \/ \E t \in Threads : StoreIncrement(t)
    \/ \E t \in Threads : StoreTimestamp(t)
    \/ \E t \in Threads : Return(t)
    \/ \E t \in Threads : ReadTime(t)
    \/ \E t \in Threads : TestTime(t)
    \/ \E t \in Threads : ReturnTime(t)

\* every thread inside a call is scheduled again
Scheduling == \A t \in Threads : WF_vars(ThreadStep(t))

SpecWait == InitOneLayout /\ [][NextWait]_vars /\ Scheduling

-----------------------------------------------------------------------------
(* Vocabulary of the properties *)

Refs == 1..Len(heap)

\* Python's a >> n (floor division, also for a negative a)
Shr(a, n) == a \div Pow2(n)

\* the calls that returned an identifier
Returned == {i \in 1..Len(history) : history[i].status = "ok"}

\* the calls the given worker served, successfully or not
ServedBy(ref) ==
    {i \in 1..Len(history) :
        history[i].op \in {"create_id", "get_next_id"} /\ history[i].worker = ref}

Registrations == {i \in 1..Len(history) : history[i].op = "create_process_and_worker"}

Requests == {i \in 1..Len(history) : history[i].op = "create_id"}

InRange(w) ==
    /\ w.process_id \in 0..max_process_id
    /\ w.worker_id \in 0..max_worker_id

DistinctPairs ==
    \A r1, r2 \in Refs :
        r1 # r2 => <<heap[r1].process_id, heap[r1].worker_id>>
                   # <<heap[r2].process_id, heap[r2].worker_id>>

\* no worker served more than max_increment + 1 successful calls in one millisecond
WithinRate ==
    \A ref \in Refs : \A t \in Clock :
        Cardinality({i \in Returned : history[i].worker = ref /\ history[i].time = t})
            <= max_increment_id + 1

\* the last event of the step being taken
Finishing == history'[Len(history')]
Finishes == Len(history') = Len(history) + 1

\* C1. Uniqueness: with pairwise distinct, in-range (process_id, worker_id)
\* registrations, create_id never returns the same integer twice, under any
\* clock, as long as no worker serves more than max_increment + 1 successful
\* calls within one millisecond reading.
C1_Uniqueness ==
    ((\A ref \in Refs : InRange(heap[ref])) /\ DistinctPairs /\ WithinRate)
    => \A i, j \in Returned : i # j => history[i].value # history[j].value

\* C1's case: two distinct in-range workers have both returned identifiers,
\* one of them twice within the same millisecond.
C1_Witness ==
    /\ \A ref \in Refs : InRange(heap[ref])
    /\ DistinctPairs
    /\ WithinRate
    /\ \E i, j, k \in Returned :
          /\ i # j
          /\ history[i].worker = history[j].worker
          /\ history[i].time = history[j].time
          /\ history[k].worker # history[i].worker

\* C2. Clock regression: a get_next_id that reads a clock value strictly
\* less than the worker's last_timestamp raises the error carrying
\* last_timestamp minus the reading, returns no identifier, and leaves the
\* worker's increment and last_timestamp as they were.
C2_ClockRegression ==
    [][\A ref \in Refs :
          (/\ Finishes
           /\ Finishing.op \in {"create_id", "get_next_id"}
           /\ Finishing.worker = ref
           /\ Finishing.time < heap[ref].last_timestamp)
          => /\ Finishing.status = "OSError"
             /\ Finishing.value = heap[ref].last_timestamp - Finishing.time
             /\ heap'[ref].increment = heap[ref].increment
             /\ heap'[ref].last_timestamp = heap[ref].last_timestamp
             /\ heap' = heap]_vars

\* C2's case: a call has failed on a reading earlier than last_timestamp.
C2_Witness ==
    \E i \in Requests :
        /\ history[i].status = "OSError"
        /\ history[i].value > 0
        /\ history[i].time < heap[history[i].worker].last_timestamp

\* the workers create_id selected, in the order of the requests
RECURSIVE SelectedIn(_)
SelectedIn(h) ==
    IF h = <<>> THEN <<>>
    ELSE IF Head(h).op = "create_id" /\ Head(h).worker # None
         THEN <<Head(h).worker>> \o SelectedIn(Tail(h))
         ELSE SelectedIn(Tail(h))

Selected == SelectedIn(history)

\* every registration came before the first request
RegisteredFirst ==
    \A i \in Registrations : \A j \in Requests : i < j

\* C3. Rotation fairness: with N >= 1 workers registered before the first
\* request and none afterwards, the requests k*N+1 .. (k+1)*N select every
\* worker exactly once: no worker is selected twice within such a round, and a
\* complete round selects all N.
C3_RotationFairness ==
    (RegisteredFirst /\ Len(workers_full) >= 1)
    => LET N == Len(workers_full) IN
       /\ \A i, j \in 1..Len(Selected) :
             (i < j /\ (i - 1) \div N = (j - 1) \div N) => Selected[i] # Selected[j]
       /\ \A k \in 0..Len(Selected) :
             (k + 1) * N <= Len(Selected)
             => {Selected[i] : i \in (k * N + 1)..((k + 1) * N)}
                = {workers_full[n] : n \in 1..N}

\* C3's case: two workers, and a second round has begun.
C3_Witness ==
    /\ RegisteredFirst
    /\ Len(workers_full) = 2
    /\ Len(Selected) >= 3

\* the last identifier the given worker returned, as an index of the history
LastReturned(ref) ==
    CHOOSE i \in Returned :
        /\ history[i].worker = ref
        /\ \A j \in Returned : history[j].worker = ref => j <= i

\* C5. Monotonic non-decrease: for a worker whose clock readings never
\* decrease, the timestamp field (id >> timestamp_shift) of the identifiers it
\* returns is non-decreasing.
C5_MonotonicTimestampField ==
    \A ref \in Refs :
        (\A i, j \in ServedBy(ref) : i < j => history[i].time <= history[j].time)
        => \A i, j \in Returned \cap ServedBy(ref) :
              i < j => Shr(history[i].value, timestamp_left_shift)
                       <= Shr(history[j].value, timestamp_left_shift)

\* the fields of an identifier, by the shifts and masks that mirror ComposeId
DecodeTimestamp(id) == Shr(id, timestamp_left_shift)
DecodeProcess(id) == BitAnd(Shr(id, process_id_left_shift), max_process_id)
DecodeWorker(id) == BitAnd(Shr(id, worker_id_left_shift), max_worker_id)
DecodeIncrement(id) == BitAnd(id, max_increment_id)

\* C6. Decoding round-trip: an identifier composed from a timestamp delta
\* >= 0, a process_id and a worker_id within their maxima and a sequence within
\* max_increment decodes, by the mirrored shifts and masks, to those four
\* fields.  (The sequence of a worker's last identifier is its increment.)
C6_RoundTrip ==
    \A ref \in Refs :
        LET w == heap[ref] IN
        (/\ InRange(w)
         /\ \E i \in Returned : history[i].worker = ref
         /\ w.last_timestamp >= w.epoch)
        => LET e == history[LastReturned(ref)] IN
           /\ e.time = w.last_timestamp
           /\ w.increment \in 0..max_increment_id
           /\ DecodeTimestamp(e.value) = e.time - w.epoch
           /\ DecodeProcess(e.value) = w.process_id
           /\ DecodeWorker(e.value) = w.worker_id
           /\ DecodeIncrement(e.value) = w.increment

\* C6's case: an identifier with four non-zero fields, the process and the
\* worker field of different widths and values.
C6_Witness ==
    \E ref \in Refs :
        LET w == heap[ref] IN
        /\ InRange(w)
        /\ \E i \in Returned : history[i].worker = ref
        /\ w.last_timestamp > w.epoch
        /\ w.process_id > 0
        /\ w.worker_id > 0
        /\ w.process_id # w.worker_id
        /\ w.increment > 0
        /\ process_id_bits # worker_id_bits

\* C7. Out-of-range registration is rejected: no worker whose process_id
\* exceeds max_process_id, or whose worker_id exceeds max_worker_id, is added
\* to workers_full or to the rotation pool.
C7_OutOfRangeRejected ==
    /\ \A n \in 1..Len(workers_full) : InRange(heap[workers_full[n]])
    /\ \A n \in 1..Len(workers) : InRange(heap[workers[n]])

\* C8. Duplicate registration is rejected: the (process_id, worker_id)
\* pairs of the workers in workers_full are pairwise distinct.
C8_DuplicateRejected ==
    \A m, n \in 1..Len(workers_full) :
        m # n => \/ heap[workers_full[m]].process_id # heap[workers_full[n]].process_id
                 \/ heap[workers_full[m]].worker_id # heap[workers_full[n]].worker_id

\* C9. create_id before any registration fails, returns no identifier and
\* leaves the registry and the pool empty; the call that follows the first
\* registration succeeds.
C9_NoWorkers ==
    /\ Registrations = {} => (heap = <<>> /\ workers = <<>> /\ workers_full = <<>>)
    /\ \A i \in Requests :
          (\A r \in Registrations : i < r)
          => (history[i].status = "IndexError" /\ history[i].worker = None)
    /\ \A i \in Requests :
          (i - 1 \in Registrations /\ \A r \in Registrations : i - 1 <= r)
          => (history[i].status = "ok" /\ history[i].worker = workers_full[1])

\* C9's case: a failed request on the empty registry, then the first
\* registration, then a request.
C9_Witness ==
    \E i \in Requests :
        /\ history[i].status = "IndexError"
        /\ Registrations # {}
        /\ \A r \in Registrations : i < r
        /\ i + 1 \in Registrations
        /\ i + 2 \in Requests

\* a thread is inside a call that was given the worker
Busy(ref) == \E t \in Running : frame[t].random_worker = ref

\* the `increment` argument the worker was registered with
InitialIncrement(ref) ==
    history[CHOOSE i \in Registrations : history[i].worker = ref].value

C10_PoolSerialized ==
    \A i \in Requests :
        history[i].status = "IndexError" => \A r \in Registrations : i < r


\* the lookups, as indices of the history
Lookups == {i \in 1..Len(history) : history[i].op = "get_worker"}

\* the workers ever registered with the pair
RegisteredAs(worker_id, process_id) ==
    {ref \in Refs : heap[ref].worker_id = worker_id /\ heap[ref].process_id = process_id}

\* C11. get_worker lookup: a get_worker(worker_id, process_id) returns a
\* worker of workers_full with exactly that pair if one was ever registered with
\* it, None otherwise, and leaves workers_full, the rotation pool and every
\* worker's increment and last_timestamp as they were.
C11_Lookup ==
    [][(Finishes /\ Finishing.op = "get_worker")
       => LET found == Finishing.worker
              registered == RegisteredAs(Finishing.value[1], Finishing.value[2])
          IN  /\ registered # {}
                 => /\ found \in registered
                    /\ \E n \in 1..Len(workers_full) : workers_full[n] = found
              /\ registered = {} => found = None
              /\ workers_full' = workers_full
              /\ workers' = workers
              /\ heap' = heap]_vars

\* C11's case: after a registration and a request, one lookup has found a
\* worker that shares one id with another worker, and one has found none.
C11_Witness ==
    /\ Requests # {}
    /\ \E i, j \in Lookups :
          /\ history[i].worker # None
          /\ history[j].worker = None
          /\ \E ref \in Refs :
                /\ ref # history[i].worker
                /\ heap[ref].worker_id = heap[history[i].worker].worker_id
                /\ heap[ref].process_id # heap[history[i].worker].process_id


\* C12. No operation waits on the clock: every call of a Worker or Generator
\* operation, once begun and scheduled, ends (it returns or raises), under every
\* clock, one that never advances included.
C12_NoClockWait ==
    \A t \in Threads : (pc[t] # "idle") ~> (pc[t] = "idle")


\* C13. Round-robin determinism: with the workers registered before the
\* first request, the i-th create_id is served by the worker at index
\* (i - 1) mod N of workers_full (counted from 0): A, B, C, A, ...
C13_RoundRobin ==
    (RegisteredFirst /\ Len(workers_full) >= 1)
    => \A i \in 1..Len(Selected) :
          Selected[i] = workers_full[((i - 1) % Len(workers_full)) + 1]

RECURSIVE BitLength(_)
\* the bits a non-negative number takes
BitLength(n) == IF n = 0 THEN 0 ELSE 1 + BitLength(n \div 2)

\* the width of the timestamp field: what the largest delta of the model takes
TimestampBits == BitLength(MaxTime)

\* C14. Over-wide layouts are rejected at construction: no generator whose
\* process_id_bits + worker_id_bits + increment_bits, together with the
\* timestamp field, exceed the target width exists and issues identifiers.
C14_OverWideRejected ==
    Returned # {}
    => process_id_bits + worker_id_bits + increment_bits + TimestampBits <= TargetWidth


\* the identifiers the worker returned before the call j
ReturnedBefore(ref, j) == {i \in Returned \cap ServedBy(ref) : i < j}

\* the last of them: the call that set the last_timestamp the call j compared with
PreviousReturned(ref, j) ==
    CHOOSE i \in ReturnedBefore(ref, j) : \A k \in ReturnedBefore(ref, j) : k <= i

\* <<ref, i, j>>: the call j on the worker read the time of its previous identifier i
EqualTimestampCalls ==
    {<<ref, PreviousReturned(ref, j), j>> : <<ref, j>> \in
        {c \in Refs \X (1..Len(history)) :
            /\ c[2] \in ServedBy(c[1])
            /\ ReturnedBefore(c[1], c[2]) # {}
            /\ history[c[2]].time = history[PreviousReturned(c[1], c[2])].time}}

\* a call on a worker failed on the clock only when it read less than the time
\* of the worker's previous identifier
OnlySmallerReadingsFail ==
    \A ref \in Refs : \A j \in ServedBy(ref) :
        history[j].status = "OSError"
        => /\ ReturnedBefore(ref, j) # {}
           /\ history[j].time < history[PreviousReturned(ref, j)].time

\* a call that read the time of the previous identifier returned one with the
\* same timestamp field and the sequence advanced by one
EqualReadingsSucceed ==
    \A c \in EqualTimestampCalls :
        LET previous == history[c[2]]
            this == history[c[3]]
        IN  /\ this.status = "ok"
            /\ DecodeTimestamp(this.value) = DecodeTimestamp(previous.value)
            /\ DecodeIncrement(this.value)
               = (DecodeIncrement(previous.value) + 1) % (max_increment_id + 1)

\* C15 as stated. Equal timestamps are accepted: a call whose reading equals
\* last_timestamp succeeds, advances the sequence and returns an identifier with
\* the same timestamp field as the previous one and a different sequence field;
\* only a strictly smaller reading fails.
C15_EqualTimestamps_AsStated ==
    /\ EqualReadingsSucceed
    /\ OnlySmallerReadingsFail
    /\ \A c \in EqualTimestampCalls :
          DecodeIncrement(history[c[3]].value) # DecodeIncrement(history[c[2]].value)

\* C15. Equal timestamps are accepted, amended: the sequence field differs
\* from the previous one when increment_bits >= 1; with increment_bits = 0 the
\* field has no bits and is 0 in both identifiers.
C15_EqualTimestamps ==
    /\ EqualReadingsSucceed
    /\ OnlySmallerReadingsFail
    /\ increment_bits >= 1
       => \A c \in EqualTimestampCalls :
             DecodeIncrement(history[c[3]].value) # DecodeIncrement(history[c[2]].value)

\* C15's case: a worker with a sequence field of one bit served two calls in
\* one millisecond after the epoch, and a call that read less has failed.
C15_Witness ==
    /\ increment_bits >= 1
    /\ \E c \in EqualTimestampCalls : history[c[3]].time > heap[c[1]].epoch
    /\ \E i \in Requests : history[i].status = "OSError"


\* the identifiers the worker returned after the call i, up to and including j
ReturnedBetween(ref, i, j) == {k \in Returned \cap ServedBy(ref) : i < k /\ k <= j}

\* C16. Sequence advance with wraparound: every successful call sets the
\* worker's increment to (old increment + 1) mod (max_increment + 1), whether or
\* not the millisecond changed; the low increment_bits bits of the identifier
\* are the new increment, which lies in 0..max_increment; and the sequence field
\* repeats after max_increment + 1 successful calls of the worker.
C16_SequenceWraps ==
    /\ [][(Finishes /\ Finishing.status = "ok")
          => LET ref == Finishing.worker IN
             /\ heap'[ref].increment
                = (heap[ref].increment + 1) % (max_increment_id + 1)
             /\ heap'[ref].increment \in 0..max_increment_id
             /\ DecodeIncrement(Finishing.value) = heap'[ref].increment]_vars
    /\ [](\A ref \in Refs : \A i, j \in Returned \cap ServedBy(ref) :
             Cardinality(ReturnedBetween(ref, i, j)) = max_increment_id + 1
             => DecodeIncrement(history[j].value) = DecodeIncrement(history[i].value))

\* C16's case: a worker with a sequence field of one bit has returned three
\* identifiers, in more than one millisecond: the sequence has wrapped.
C16_Witness ==
    /\ increment_bits = 1
    /\ \E ref \in Refs : \E i, j \in Returned \cap ServedBy(ref) :
          /\ Cardinality(ReturnedBetween(ref, i, j)) = 2
          /\ history[i].time # history[j].time
          /\ heap[ref].increment = 1


\* the workers in a list
Members(list) == {list[n] : n \in 1..Len(list)}

\* C17. Rotation-pool invariant, one caller at a time: after any sequence
\* of create_process_and_worker and create_id calls the pool `workers` holds
\* no worker twice, holds only workers of workers_full, and is not empty when
\* workers_full is not.
C17_PoolInvariant ==
    /\ \A m, n \in 1..Len(workers) : m # n => workers[m] # workers[n]
    /\ Members(workers) \subseteq Members(workers_full)
    /\ workers_full # <<>> => workers # <<>>

\* C17's case: a worker was registered after a request, and a round is under
\* way: the pool holds fewer workers than the registry.
C17_Witness ==
    /\ \E i \in Requests : \E r \in Registrations : i < r /\ history[i].status = "ok"
    /\ Len(workers_full) = 2
    /\ Len(workers) = 1

\* C18. Failure through the generator: when create_id selects a worker
\* whose get_next_id raises the clock-regression error, the caller gets that
\* error (with last_timestamp minus the reading), workers_full and every
\* worker's fields are unchanged, and the selected worker has left the pool,
\* which is refilled from workers_full if that emptied it.
C18_FailureConsumesTurn ==
    [][(Finishes /\ Finishing.op = "create_id" /\ Finishing.status = "OSError")
       => LET ref == Finishing.worker IN
          /\ ref \in Members(workers)
          /\ Finishing.value = heap[ref].last_timestamp - Finishing.time
          /\ Finishing.value > 0
          /\ workers_full' = workers_full
          /\ heap' = heap
          /\ IF Members(workers) = {ref}
             THEN workers' = workers_full
             ELSE /\ Len(workers') = Len(workers) - 1
                  /\ Members(workers') = Members(workers) \ {ref}]_vars

\* C18's case: of two workers in the pool one was selected and failed, and the
\* next request was served by the other.
C18_Witness ==
    \E i \in Requests :
        /\ history[i].status = "OSError"
        /\ i + 1 \in Requests
        /\ history[i + 1].worker # history[i].worker

\* C19. Bounded starvation: with N >= 1 workers registered before the first
\* request and none afterwards, every window of 2N - 1 consecutive create_id
\* calls selects every registered worker at least once, for all shuffles.
C19_BoundedStarvation ==
    (RegisteredFirst /\ Len(workers_full) >= 1)
    => LET N == Len(workers_full) IN
       \A first \in 1..Len(Selected) :
          first + 2 * N - 2 <= Len(Selected)
          => {Selected[i] : i \in first..(first + 2 * N - 2)} = Members(workers_full)

\* C19's case: two workers and a window of three calls, of which the last two
\* selected the same worker: no window shorter than 2N - 1 would do.
C19_Witness ==
    /\ RegisteredFirst
    /\ Len(workers_full) = 2
    /\ Len(Selected) >= 3
    /\ Selected[2] = Selected[3]

\* C20. last_timestamp starts at the sentinel -1 and never decreases over
\* any calls, successful or failed, under any clock; after the first successful
\* call it is the reading of the most recent successful call and never the
\* sentinel again; so the timestamp fields of the identifiers a worker returns
\* are non-decreasing, failed calls in between included.
C20_LastTimestamp ==
    /\ [](\A ref \in Refs :
             IF Returned \cap ServedBy(ref) = {}
             THEN heap[ref].last_timestamp = -1
             ELSE /\ heap[ref].last_timestamp = history[LastReturned(ref)].time
                  /\ heap[ref].last_timestamp # -1)
    /\ [][\A ref \in Refs : heap'[ref].last_timestamp >= heap[ref].last_timestamp]_vars
    /\ [](\A ref \in Refs : \A i, j \in Returned \cap ServedBy(ref) :
             i < j => DecodeTimestamp(history[i].value) <= DecodeTimestamp(history[j].value))

====
